---- MODULE Spec2Model ----
(***************************************************************************)
(* gridfs_fuse: the filesystem operations layer of                         *)
(* src/gridfs_fuse/operations.py, modelled as a state machine.             *)
(*                                                                         *)
(* State: the metadata collection (one document per inode and the          *)
(* next_inode allocator document), the chunked store (fs.files and         *)
(* fs.chunks), the handle table (FileDescriptorFactory, active_reads,      *)
(* active_writes).  Every callback is an operator from the state and its   *)
(* arguments to its answer and the state it leaves (name_o), and an action *)
(* that applies it to arguments the host may pass.  An answer is "ok", the *)
(* errno name when the callback raised llfuse.FUSEError, or the            *)
(* exception's class name when another exception left the handler, with    *)
(* the source line that raised or returned.  A callback that raises before *)
(* it writes leaves the state as it found it.                              *)
(*                                                                         *)
(* Byte strings (file names, paths, file data) are sequences: a name is a  *)
(* sequence of characters, file data a sequence of byte values.            *)
(***************************************************************************)
EXTENDS Integers, Sequences, FiniteSets, TLC

(* ------------------------------ bounds -------------------------------- *)

\* Inodes the allocator may hand out: create and mkdir stop at MaxInode.
MaxInode == 3

\* File handles the factory may hand out: gen stops at MaxFd.
MaxFd == 2

\* Bytes one writer may take.
MaxLen == 3

\* The chunk size of the chunked store (gridfs: 255 kB), scaled down so that
\* a writer fills a chunk and buffers a rest within MaxLen bytes.
ChunkSize == 2

(* ------------------------- program constants -------------------------- *)

\* llfuse.ROOT_INODE
ROOT_INODE == 1

\* FileDescriptorFactory.gen wraps the cursor at 2 ** 16.
FdModulus == 65536

\* _get_entry_size: the size reported for a directory.
DirSize == 4096

\* os.O_RDONLY, os.O_WRONLY, os.O_RDWR: the access modes of open's flags.
O_RDONLY == 0

O_WRONLY == 1

O_RDWR == 2

Inodes == ROOT_INODE..MaxInode

\* Handles a caller may present (the factory starts at 1).
Fds == 1..MaxFd

\* File names the callers use: byte strings without '/'.
Names == {<<"a">>, <<"b">>}

\* The k-th byte (from 1) the callers write to the file of inode id: every
\* position of every file carries a value of its own, so that a byte lost,
\* repeated, moved or taken from another file shows.
PatternByte(id, k) == 10 * id + k

\* What one write call may carry to the file of inode id at `offset`: the
\* next n bytes of that file's pattern.
PatternData(id, offset, n) == [k \in 1..n |-> PatternByte(id, offset + k)]

OpenFlags == {O_RDONLY, O_WRONLY, O_RDWR}

\* The two file types a mode word carries here: llfuse forces S_IFDIR onto
\* mkdir's mode, the kernel passes S_IFREG to create.
S_IFDIR == "S_IFDIR"

S_IFREG == "S_IFREG"

\* find_one found no record (None).
NoDoc == [filename |-> <<>>, parent_inode |-> 0, mode |-> "None", childs |-> <<>>]

\* gridfs holds no file document with that _id (gridfs.errors.NoFile).
NoFile == [filename |-> <<>>, length |-> -1]

(* ------------------------------ state --------------------------------- *)

VARIABLES
    meta,           \* metadata collection: inode -> document, or NoDoc
    next_inode,     \* value of the {_id: "next_inode"} document
    fs_files,       \* fs.files: inode -> [filename, length], or NoFile
    fs_chunks,      \* fs.chunks: set of [files_id, n, data]
    active_writes,  \* Operations.active_writes: fd -> GridIn
    active_reads,   \* Operations.active_reads: fd -> GridOut
    next_fd,        \* FileDescriptorFactory.next_fd
    active_fd,      \* FileDescriptorFactory.active_fd
    unlinked,       \* history: inodes whose unlink returned successfully
    removed,        \* history: inodes whose rmdir returned successfully
    proc            \* the clients whose create/mkdir is run step by step

vars == <<meta, next_inode, fs_files, fs_chunks, active_writes, active_reads,
          next_fd, active_fd, unlinked, removed, proc>>

store == <<meta, next_inode, fs_files, fs_chunks>>

handles == <<active_writes, active_reads, next_fd, active_fd>>

history == <<unlinked, removed>>

(* --------------------------- small helpers ---------------------------- *)

Min(a, b) == IF a < b THEN a ELSE b

MaxOf(S) == CHOOSE x \in S : \A y \in S : y <= x

\* dict[k] = v
Put(f, k, v) == [x \in (DOMAIN f) \cup {k} |-> IF x = k THEN v ELSE f[x]]

\* A pop that leaves the key in the dict.
Pop_keep(f, k) == f

\* dict.pop(k)
Pop(f, k) == [x \in (DOMAIN f) \ {k} |-> f[x]]

EmptyMap == [x \in {} |-> 0]

RECURSIVE SeqWithout(_, _)
\* The elements of s that differ from e, in order.
SeqWithout(s, e) ==
    IF s = <<>> THEN <<>>
    ELSE IF Head(s) = e THEN SeqWithout(Tail(s), e)
    ELSE <<Head(s)>> \o SeqWithout(Tail(s), e)

\* {"$pull": {"childs": e}}: removes every element equal to e.
Pull(childs, e) == SeqWithout(childs, e)

\* {"$addToSet": {"childs": e}}: appends e unless it is an element already.
AddToSet(childs, e) ==
    IF \E k \in 1..Len(childs) : childs[k] = e THEN childs ELSE Append(childs, e)

\* _doc_to_entry: dict(doc['childs']); of two pairs with one name the later wins.
ChildNames(childs) == {childs[k][1] : k \in 1..Len(childs)}

ChildInode(childs, name) ==
    childs[MaxOf({k \in 1..Len(childs) : childs[k][1] = name})][2]

\* Entry.__init__ / _entry_to_doc: the document of a new entry.
Entry(filename, parent_inode, mode) ==
    [filename |-> filename, parent_inode |-> parent_inode, mode |-> mode,
     childs |-> <<>>]

\* The unique index on (parent_inode, filename): may document `inode` carry
\* (parent, filename) in collection m?
IndexAllows(m, inode, parent, filename) ==
    \A j \in Inodes :
        (j # inode /\ m[j] # NoDoc)
            => ~(m[j].parent_inode = parent /\ m[j].filename = filename)

\* An update of the parent that adds nothing.
AddChild_none(m, inode, e) == m

\* update_one({"_id": inode}, {"$addToSet": {"childs": e}}): matches nothing
\* when the document is missing.
AddChild(m, inode, e) ==
    IF m[inode] = NoDoc THEN m
    ELSE [m EXCEPT ![inode].childs = AddToSet(@, e)]

PullChild(m, inode, e) ==
    IF m[inode] = NoDoc THEN m
    ELSE [m EXCEPT ![inode].childs = Pull(@, e)]

(* ---------------------------- path resolver --------------------------- *)

\* os.path.join(a, b) that puts no separator.
JoinTwo_nosep(a, b) == a \o b

\* os.path.join(a, b) on byte strings.
JoinTwo(a, b) ==
    IF b # <<>> /\ Head(b) = "/" THEN b
    ELSE IF a = <<>> \/ a[Len(a)] = "/" THEN a \o b
    ELSE a \o <<"/">> \o b

RECURSIVE PathJoin(_)
\* os.path.join(*parts)
PathJoin(parts) ==
    IF Len(parts) = 1 THEN parts[1]
    ELSE JoinTwo(PathJoin(SubSeq(parts, 1, Len(parts) - 1)), parts[Len(parts)])

RECURSIVE WalkUp(_, _, _, _)
\* The while loop of _create_full_path: the file names from the root down to
\* the entry (id, filename, parent), each parent fetched with _entry_by_inode;
\* found is FALSE when a parent has no document (EntryNotFound).
WalkUp(m, id, filename, parent) ==
    IF id = ROOT_INODE THEN [found |-> TRUE, parts |-> <<filename>>]
    ELSE IF m[parent] = NoDoc THEN [found |-> FALSE, parts |-> <<>>]
    ELSE LET up == WalkUp(m, parent, m[parent].filename, m[parent].parent_inode)
         IN  IF up.found
             THEN [found |-> TRUE, parts |-> Append(up.parts, filename)]
             ELSE up

\* _create_full_path(entry)
create_full_path(m, id, filename, parent) ==
    LET w == WalkUp(m, id, filename, parent)
    IN  IF w.found THEN [found |-> TRUE, path |-> PathJoin(w.parts)]
        ELSE [found |-> FALSE, path |-> <<>>]

(* --------------------------- chunked store ---------------------------- *)

\* gridfs.new_file(_id=inode, filename=path): a GridIn; nothing is stored
\* before the first flush.  `written` is history: every byte write() took.
NewGridIn(id, filename) ==
    [id |-> id, filename |-> filename, position |-> 0, chunk_number |-> 0,
     buffer |-> <<>>, written |-> <<>>]

\* grid_in_size without the buffered bytes.
grid_in_size_flushed(w) == w.position

\* grid_in_size(grid_in)
grid_in_size(w) == w.position + Len(w.buffer)

\* GridIn.__flush_data: one chunk document; [w, out: the chunks inserted].
FlushData(r, data) ==
    IF data = <<>> THEN r
    ELSE [w |-> [r.w EXCEPT !.position = @ + Len(data),
                            !.chunk_number = @ + 1],
          out |-> r.out \cup {[files_id |-> r.w.id, n |-> r.w.chunk_number,
                               data |-> data]}]

RECURSIVE WriteChunks(_, _)
\* GridIn.write, buffer empty: whole chunks go out, the rest is buffered.
WriteChunks(r, data) ==
    IF Len(data) >= ChunkSize
    THEN WriteChunks(FlushData(r, SubSeq(data, 1, ChunkSize)),
                     SubSeq(data, ChunkSize + 1, Len(data)))
    ELSE [r EXCEPT !.w.buffer = data]

\* GridIn.write(data): [w: the writer afterwards, out: the chunks inserted].
GridInWrite(w, data) ==
    LET r0 == [w |-> [w EXCEPT !.written = @ \o data], out |-> {}]
        space == ChunkSize - Len(w.buffer)
        to_write == SubSeq(data, 1, Min(space, Len(data)))
    IN  IF Len(w.buffer) > 0
        THEN IF Len(to_write) < space
             THEN [r0 EXCEPT !.w.buffer = @ \o to_write]
             ELSE WriteChunks(
                      FlushData([r0 EXCEPT !.w.buffer = <<>>], w.buffer \o to_write),
                      SubSeq(data, Len(to_write) + 1, Len(data)))
        ELSE WriteChunks(r0, data)

\* GridIn.close() that drops the buffered bytes.
GridInClose_unflushed(w) ==
    [out |-> {}, file |-> [filename |-> w.filename, length |-> w.position]]

\* GridIn.close(): flush the buffer, then insert the file document.
GridInClose(w) ==
    LET r == FlushData([w |-> [w EXCEPT !.buffer = <<>>], out |-> {}], w.buffer)
    IN  [out |-> r.out,
         file |-> [filename |-> w.filename, length |-> r.w.position]]

\* gridfs.get(inode): a GridOut holding the file document it found.
NewGridOut(files, id) == [id |-> id, length |-> files[id].length]

HasChunk(chunks, id, n) == \E c \in chunks : c.files_id = id /\ c.n = n

ChunkData(chunks, id, n) ==
    (CHOOSE c \in chunks : c.files_id = id /\ c.n = n).data

\* grid_out.seek(offset); grid_out.read(length): the bytes from offset, at most
\* length of them and none past the file's length; CorruptGridFile when a chunk
\* of that range is missing.
GridOutRead(chunks, g, offset, length) ==
    LET end == Min(offset + length, g.length)
        count == IF end > offset THEN end - offset ELSE 0
        needed == {(offset + k) \div ChunkSize : k \in 0..(count - 1)}
    IN  IF \E n \in needed : ~HasChunk(chunks, g.id, n)
        THEN [result |-> "CorruptGridFile", ret |-> <<>>]
        ELSE [result |-> "ok",
              ret |-> [k \in 1..count |->
                        ChunkData(chunks, g.id, (offset + k - 1) \div ChunkSize)
                            [((offset + k - 1) % ChunkSize) + 1]]]

\* gridfs.delete(inode): the file document and its chunks.
GridDeleteChunks(chunks, id) == {c \in chunks : c.files_id # id}

(* ---------------------------- handle table ---------------------------- *)

RECURSIVE Probe(_, _)
\* FileDescriptorFactory.gen: the while loop over the live handles.
Probe(fd, live) ==
    IF fd \in live THEN Probe((fd + 1) % FdModulus, live) ELSE fd

\* A gen that hands out the cursor without looking at the live handles.
gen_cursor(cursor, live) == cursor

\* FileDescriptorFactory.gen(): the handle returned; it becomes the cursor.
gen(cursor, live) == Probe(cursor, live)

\* A release that leaves the handle in the live set.
fd_release_keep(cursor, live, fd) ==
    [active_fd |-> live, next_fd |-> cursor]

\* FileDescriptorFactory.release(fd): [next_fd, active_fd] afterwards.
fd_release(cursor, live, fd) ==
    [active_fd |-> live \ {fd},
     next_fd |-> IF live \ {fd} = {} THEN 1 ELSE cursor]

(* ----------------------------- attributes ----------------------------- *)

\* _get_entry_size(entry)
get_entry_size(aw, files, id, mode) ==
    IF mode = S_IFDIR THEN DirSize
    ELSE IF id \in DOMAIN aw THEN grid_in_size(aw[id])
    ELSE IF files[id] # NoFile THEN files[id].length
    ELSE 0

\* _gen_attr(entry)
gen_attr(aw, files, id, mode) ==
    [st_ino |-> id, st_mode |-> mode,
     st_size |-> get_entry_size(aw, files, id, mode)]

\* A callback's answer: result is "ok", the errno of the llfuse.FUSEError it
\* raised, or the class name of another exception that left the handler;
\* line is the source line that returned or raised; ret is what it returned.
Return(ret, line) == [result |-> "ok", line |-> line, ret |-> ret]

Raise(e, line) == [result |-> e, line |-> line, ret |-> 0]

\* getattr(inode, ctx): _entry_by_inode raises EntryNotFound, which no
\* handler catches.
getattr(m, aw, files, inode) ==
    IF m[inode] = NoDoc THEN Raise("EntryNotFound", 434)
    ELSE Return(gen_attr(aw, files, inode, m[inode].mode), 127)

\* lookup(folder_inode, name, ctx); the branches for '.' and '..' are taken
\* for a name equal to these strings.
lookup(m, aw, files, folder_inode, name) ==
    IF name = <<".">> THEN getattr(m, aw, files, folder_inode)
    ELSE IF m[folder_inode] = NoDoc THEN Raise("EntryNotFound", 434)
    ELSE IF name = <<".", ".">>
         THEN getattr(m, aw, files, m[folder_inode].parent_inode)
    ELSE IF name \notin ChildNames(m[folder_inode].childs) THEN Raise("ENOENT", 163)
    ELSE getattr(m, aw, files, ChildInode(m[folder_inode].childs, name))

RECURSIVE SortedValues(_, _)
\* sorted(entry.childs.values()): the inodes the names of the dict map to,
\* in ascending order.
SortedValues(childs, names) ==
    IF names = {} THEN <<>>
    ELSE LET n == CHOOSE x \in names :
                     \A y \in names : ChildInode(childs, x) <= ChildInode(childs, y)
         IN  <<ChildInode(childs, n)>> \o SortedValues(childs, names \ {n})

\* readdir's test of the cursor with continue that skips it.
readdir_skips_below(child_inode, off) == child_inode < off

\* readdir: if child_inode <= off: continue
readdir_skips(child_inode, off) == child_inode <= off

RECURSIVE readdir_items(_, _, _, _, _)
\* The loop of readdir over the sorted inodes: a child at or below the cursor
\* is skipped, and so is one whose document is missing (EntryNotFound is
\* caught); every other yields (filename, attributes, its inode).
readdir_items(m, aw, files, inodes, off) ==
    IF inodes = <<>> THEN <<>>
    ELSE LET c == Head(inodes)
             rest == readdir_items(m, aw, files, Tail(inodes), off)
         IN  IF readdir_skips(c, off) \/ m[c] = NoDoc THEN rest
             ELSE <<[name |-> m[c].filename,
                     attr |-> gen_attr(aw, files, c, m[c].mode),
                     next_off |-> c]>> \o rest

\* readdir(inode, off): the items the generator yields.  The document's
\* mode is not looked at.
readdir(m, aw, files, inode, off) ==
    IF m[inode] = NoDoc THEN Raise("EntryNotFound", 434)
    ELSE Return(readdir_items(m, aw, files,
                              SortedValues(m[inode].childs,
                                           ChildNames(m[inode].childs)),
                              off), 145)

(* ------------------------------ callbacks ----------------------------- *)

\* Inodes a caller can hold: the root and every inode handed out so far,
\* whether its document still exists or not.
Allocated == {i \in Inodes : i < next_inode}

Procs == {1, 2}

Idle == [at |-> "idle", op |-> "none", folder |-> ROOT_INODE, name |-> <<>>,
         inode |-> 0, fd |-> 0, entry |-> NoDoc,
         result |-> "none"]

\* operations_factory on an empty database: _ensure_root_inode and
\* _ensure_next_inode_document; no handle is open.
Init ==
    /\ meta = [i \in Inodes |->
                IF i = ROOT_INODE THEN Entry(<<"/">>, ROOT_INODE, S_IFDIR)
                ELSE NoDoc]
    /\ next_inode = ROOT_INODE + 1
    /\ fs_files = [i \in Inodes |-> NoFile]
    /\ fs_chunks = {}
    /\ active_writes = EmptyMap
    /\ active_reads = EmptyMap
    /\ next_fd = 1
    /\ active_fd = {}
    /\ unlinked = {}
    /\ removed = {}
    /\ proc = [p \in Procs |-> Idle]

\* The metadata collection of a database nothing was written to.
EmptyMeta == [i \in Inodes |-> NoDoc]

\* No document {"_id": "next_inode"} in the collection.
NoAllocator == 0

\* A bootstrap that writes the root document whatever the collection holds.
ensure_root_inode_overwrite(m) ==
    [m EXCEPT ![ROOT_INODE] = Entry(<<"/">>, ROOT_INODE, S_IFDIR)]

\* _ensure_root_inode(ops): insert_one of the root entry; the duplicate-key
\* error (a document with _id ROOT_INODE, or one carrying the root's
\* (parent_inode, filename)) is swallowed.
ensure_root_inode(m) ==
    IF m[ROOT_INODE] # NoDoc
          \/ ~IndexAllows(m, ROOT_INODE, ROOT_INODE, <<"/">>)
    THEN m
    ELSE [m EXCEPT ![ROOT_INODE] = Entry(<<"/">>, ROOT_INODE, S_IFDIR)]

\* _ensure_next_inode_document(ops): insert_one of the allocator document
\* with value ROOT_INODE + 1; the duplicate-key error is swallowed.
ensure_next_inode_document(value) ==
    IF value # NoAllocator THEN value ELSE ROOT_INODE + 1

\* operations_factory(options) on a database holding (m, value): what the
\* metadata collection holds afterwards.
operations_factory_o(m, value) ==
    [meta |-> ensure_root_inode(m),
     next_inode |-> ensure_next_inode_document(value)]

\* An insert_one that the index never rejects.
insert_rejected_never(m, inode, folder_inode, name) == FALSE

\* _insert_entry(entry): insert_one under the unique index; TRUE when the
\* index rejects the document (pymongo.errors.DuplicateKeyError).
insert_rejected(m, inode, folder_inode, name) ==
    ~IndexAllows(m, inode, folder_inode, name)

\* _gen_inode with an update that leaves the value as it is.
inc_value_none(value) == value

\* _gen_inode: {"$inc": {"value": 1}} on the next_inode document.
inc_value(value) == value + 1

\* _create_entry(folder_inode, name, mode, ctx): _gen_inode, _insert_entry,
\* then $addToSet on the parent.  The inode is taken from the allocator
\* before the insert, so a rejected insert uses it up.  Nothing catches the
\* duplicate-key error.
create_entry(folder_inode, name, mode) ==
    LET inode == next_inode
        m1 == [meta EXCEPT ![inode] = Entry(name, folder_inode, mode)]
    IN  IF insert_rejected(meta, inode, folder_inode, name)
        THEN [result |-> "DuplicateKeyError", line |-> 440, inode |-> inode,
              meta |-> meta, next_inode |-> inc_value(next_inode)]
        ELSE [result |-> "ok", line |-> 216, inode |-> inode,
              meta |-> AddChild(m1, folder_inode, <<name, inode>>),
              next_inode |-> inc_value(next_inode)]

\* mkdir(folder_inode, name, mode, ctx)
mkdir_o(folder_inode, name) ==
    LET e == create_entry(folder_inode, name, S_IFDIR)
    IN  [result |-> e.result,
         line |-> IF e.result = "ok" THEN 174 ELSE e.line,
         ret |-> IF e.result = "ok"
                 THEN gen_attr(active_writes, fs_files, e.inode, S_IFDIR) ELSE 0,
         meta |-> e.meta,
         next_inode |-> e.next_inode]

\* create(folder_inode, name, mode, flags, ctx): _create_entry, a handle from
\* the factory, then _create_grid_in, whose path walk raises EntryNotFound
\* when an ancestor has no document: by then the entry is inserted and the
\* handle is live, but no writer is registered.
create_o(folder_inode, name) ==
    LET e == create_entry(folder_inode, name, S_IFREG)
        fd == gen(next_fd, active_fd)
        p == create_full_path(e.meta, e.inode, name, folder_inode)
        aw == Put(active_writes, fd, NewGridIn(e.inode, p.path))
        same == [result |-> e.result, line |-> e.line, ret |-> 0,
                 meta |-> e.meta, next_inode |-> e.next_inode,
                 active_writes |-> active_writes, next_fd |-> next_fd,
                 active_fd |-> active_fd]
    IN  IF e.result # "ok" THEN same
        ELSE IF ~p.found
        THEN [same EXCEPT !.result = "EntryNotFound", !.line = 434,
                          !.next_fd = fd, !.active_fd = active_fd \cup {fd}]
        ELSE [same EXCEPT !.line = 184,
                          !.ret = [fd |-> fd,
                                   attr |-> gen_attr(aw, fs_files, e.inode, S_IFREG)],
                          !.next_fd = fd, !.active_fd = active_fd \cup {fd},
                          !.active_writes = aw]

\* _delete_inode_check_file without the S_ISDIR test.
delete_inode_check_file_any(entry) == Return(0, 298)

\* _delete_inode_check_file(entry)
delete_inode_check_file(entry) ==
    IF entry.mode = S_IFDIR THEN Raise("EISDIR", 298) ELSE Return(0, 298)

\* _delete_inode_check_directory without the test of childs.
delete_inode_check_directory_any(entry) ==
    IF entry.mode # S_IFDIR THEN Raise("ENOTDIR", 302) ELSE Return(0, 305)

\* _delete_inode_check_directory(entry)
delete_inode_check_directory(entry) ==
    IF entry.mode # S_IFDIR THEN Raise("ENOTDIR", 302)
    ELSE IF Len(entry.childs) > 0 THEN Raise("ENOTEMPTY", 305)
    ELSE Return(0, 305)

\* The entry check rename hands to _delete_inode: lambda entry: None.
rename_noop(entry) == Return(0, 381)

\* entry_check(entry) in _delete_inode: the callable it was handed, by name.
call_entry_check(entry_check, entry) ==
    CASE entry_check = "_delete_inode_check_file" -> delete_inode_check_file(entry)
      [] entry_check = "_delete_inode_check_directory"
             -> delete_inode_check_directory(entry)
      [] entry_check = "noop" -> rename_noop(entry)

\* _delete_inode(folder_inode, name, entry_check): the answer, the inode
\* found and the three collections afterwards: $pull from the parent, then
\* delete_one of the document, then gridfs.delete.
delete_inode(m, files, chunks, folder_inode, name, entry_check) ==
    LET same == [result |-> "ok", line |-> 294, inode |-> 0, meta |-> m,
                 files |-> files, chunks |-> chunks]
    IN  IF m[folder_inode] = NoDoc
        THEN [same EXCEPT !.result = "EntryNotFound", !.line = 434]
        ELSE IF name \notin ChildNames(m[folder_inode].childs)
        THEN [same EXCEPT !.result = "ENOENT", !.line = 279]
        ELSE LET inode == ChildInode(m[folder_inode].childs, name)
                 c == call_entry_check(entry_check, m[inode])
             IN  IF m[inode] = NoDoc
                 THEN [same EXCEPT !.result = "EntryNotFound", !.line = 434,
                                   !.inode = inode]
                 ELSE IF c.result # "ok"
                 THEN [same EXCEPT !.result = c.result, !.line = c.line,
                                   !.inode = inode]
                 ELSE [same EXCEPT
                           !.inode = inode,
                           !.meta = [PullChild(m, folder_inode, <<name, inode>>)
                                        EXCEPT ![inode] = NoDoc],
                           !.files = [files EXCEPT ![inode] = NoFile],
                           !.chunks = GridDeleteChunks(chunks, inode)]

\* unlink(folder_inode, name, ctx)
unlink_o(folder_inode, name) ==
    delete_inode(meta, fs_files, fs_chunks, folder_inode, name,
                 "_delete_inode_check_file")

\* rmdir(folder_inode, name, ctx)
rmdir_o(folder_inode, name) ==
    delete_inode(meta, fs_files, fs_chunks, folder_inode, name,
                 "_delete_inode_check_directory")

RECURSIVE BitAnd(_, _)
\* a & b on non-negative integers
BitAnd(a, b) ==
    IF a = 0 \/ b = 0 THEN 0
    ELSE (a % 2) * (b % 2) + 2 * BitAnd(a \div 2, b \div 2)

\* open(inode, flags, ctx) in the state (files, ar, cursor, live): the flag
\* test, gridfs.get, then a handle from the factory.
open_in(files, ar, cursor, live, inode, flags) ==
    LET fd == gen(cursor, live)
        same == [result |-> "ok", line |-> 113, ret |-> 0,
                 active_reads |-> ar, next_fd |-> cursor, active_fd |-> live]
    IN  IF BitAnd(flags, O_WRONLY) # 0
        THEN [same EXCEPT !.result = "EACCES", !.line = 101]
        ELSE IF files[inode] = NoFile
        THEN [same EXCEPT !.result = "EIO", !.line = 108]
        ELSE [same EXCEPT !.ret = fd, !.next_fd = fd,
                          !.active_fd = live \cup {fd},
                          !.active_reads = Put(ar, fd, NewGridOut(files, inode))]

open_o(inode, flags) ==
    open_in(fs_files, active_reads, next_fd, active_fd, inode, flags)

\* read(fd, offset, length) in the state (chunks, ar)
read_in(chunks, ar, fd, offset, length) ==
    IF fd \notin DOMAIN ar THEN Raise("EINVAL", 312)
    ELSE LET g == GridOutRead(chunks, ar[fd], offset, length)
         IN  [result |-> g.result, line |-> 317, ret |-> g.ret]

read_o(fd, offset, length) == read_in(fs_chunks, active_reads, fd, offset, length)

\* write(fd, offset, data) in the state (aw, chunks)
write_in(aw, chunks, fd, offset, data) ==
    LET same == [result |-> "ok", line |-> 333, ret |-> 0,
                 active_writes |-> aw, fs_chunks |-> chunks]
    IN  IF fd \notin DOMAIN aw
        THEN [same EXCEPT !.result = "EINVAL", !.line = 325]
        ELSE IF offset # grid_in_size(aw[fd])
        THEN [same EXCEPT !.result = "EINVAL", !.line = 330]
        ELSE LET r == GridInWrite(aw[fd], data)
             IN  [same EXCEPT !.ret = Len(data),
                              !.active_writes = Put(aw, fd, r.w),
                              !.fs_chunks = chunks \cup r.out]

write_o(fd, offset, data) ==
    write_in(active_writes, fs_chunks, fd, offset, data)

\* release(fd): close the writer (which stores the file document) or the
\* reader registered under fd, then give the handle back to the factory.
release_o(fd) ==
    LET isw == fd \in DOMAIN active_writes
        c == GridInClose(active_writes[fd])
        f == fd_release(next_fd, active_fd, fd)
    IN  [result |-> "ok", line |-> 344, ret |-> 0,
         active_writes |-> IF isw THEN Pop(active_writes, fd) ELSE active_writes,
         fs_files |-> IF isw THEN [fs_files EXCEPT ![active_writes[fd].id] = c.file]
                      ELSE fs_files,
         fs_chunks |-> IF isw THEN fs_chunks \cup c.out ELSE fs_chunks,
         active_reads |-> IF fd \in DOMAIN active_reads THEN Pop(active_reads, fd)
                          ELSE active_reads,
         active_fd |-> f.active_fd,
         next_fd |-> f.next_fd]

\* _update_entry(entry): update_one({"_id": inode}, {"$set": doc}) with the
\* whole document of the entry as it was read.
update_entry(m, inode, entry) ==
    IF m[inode] = NoDoc THEN m ELSE [m EXCEPT ![inode] = entry]

\* setattr(inode, attr, fields, fh, ctx): st_size, st_rdev and st_mode are
\* "None" or given.  Of the attributes it may set, the mode word is the one
\* kept here.
setattr_o(inode, st_size, st_rdev, st_mode) ==
    LET same == [result |-> "ok", line |-> 246, ret |-> 0, meta |-> meta]
        entry == [meta[inode] EXCEPT !.mode = IF st_mode = "None" THEN @
                                               ELSE st_mode]
    IN  IF meta[inode] = NoDoc
        THEN [same EXCEPT !.result = "EntryNotFound", !.line = 434]
        ELSE IF st_size # "None"
        THEN [same EXCEPT !.result = "EINVAL", !.line = 225]
        ELSE IF st_rdev # "None"
        THEN [same EXCEPT !.result = "ENOSYS", !.line = 228]
        ELSE [same EXCEPT
                  !.meta = update_entry(meta, inode, entry),
                  !.ret = gen_attr(active_writes, fs_files, inode, entry.mode)]

\* The parameters lookup declares after self, and the arguments rename's call
\* self.lookup(old_folder_inode, old_name) passes.
LookupParams == <<"folder_inode", "name", "ctx">>

RenameLookupArgs == <<"old_folder_inode", "old_name">>

\* A call that binds whatever arguments it is given.
CallBinds_any(params, args) == TRUE

\* Python binds a call whose positional arguments fill the parameters (none
\* of them has a default) and raises TypeError otherwise.
CallBinds(params, args) == Len(args) = Len(params)

\* rename from its second statement on: the entry and the target directory
\* are loaded, an entry of that name in the target is deleted, the entry's
\* document takes its new parent and name (under the unique index), the old
\* parent drops the pair and the new one takes it, and the file document of
\* the chunked store takes the new path.
rename_moved(same, a, old_folder_inode, new_folder_inode, new_name) ==
    LET inode == a.ret.st_ino
        entry == meta[inode]
        d == IF new_name \in ChildNames(meta[new_folder_inode].childs)
             THEN delete_inode(meta, fs_files, fs_chunks, new_folder_inode,
                               new_name, "noop")
             ELSE [result |-> "ok", line |-> 380, inode |-> 0, meta |-> meta,
                   files |-> fs_files, chunks |-> fs_chunks]
        after == [same EXCEPT !.meta = d.meta, !.files = d.files,
                              !.chunks = d.chunks]
        m1 == IF d.meta[inode] = NoDoc THEN d.meta
              ELSE [d.meta EXCEPT ![inode].parent_inode = new_folder_inode,
                                  ![inode].filename = new_name]
        m2 == PullChild(m1, old_folder_inode, <<entry.filename, inode>>)
        m3 == AddChild(m2, new_folder_inode, <<new_name, inode>>)
        p == create_full_path(m3, inode, new_name, new_folder_inode)
    IN  IF d.result # "ok"
        THEN [same EXCEPT !.result = d.result, !.line = d.line]
        ELSE IF d.meta[inode] # NoDoc
                /\ ~IndexAllows(d.meta, inode, new_folder_inode, new_name)
        THEN [after EXCEPT !.result = "DuplicateKeyError", !.line = 388]
        ELSE IF ~p.found
        THEN [after EXCEPT !.result = "EntryNotFound", !.line = 434,
                           !.meta = m3]
        ELSE [after EXCEPT
                  !.meta = m3,
                  !.files = IF d.files[inode] = NoFile THEN d.files
                            ELSE [d.files EXCEPT ![inode].filename = p.path]]

\* rename(old_folder_inode, old_name, new_folder_inode, new_name, ctx): its
\* first statement calls lookup without ctx, so TypeError leaves the handler
\* before anything is read or written.
rename_o(old_folder_inode, old_name, new_folder_inode, new_name) ==
    LET same == [result |-> "ok", line |-> 407, ret |-> 0, meta |-> meta,
                 files |-> fs_files, chunks |-> fs_chunks]
        a == lookup(meta, active_writes, fs_files, old_folder_inode, old_name)
    IN  IF ~CallBinds(LookupParams, RenameLookupArgs)
        THEN [same EXCEPT !.result = "TypeError", !.line = 369]
        ELSE IF a.result # "ok"
        THEN [same EXCEPT !.result = a.result, !.line = a.line]
        ELSE IF meta[a.ret.st_ino] = NoDoc \/ meta[new_folder_inode] = NoDoc
        THEN [same EXCEPT !.result = "EntryNotFound", !.line = 434]
        ELSE rename_moved(same, a, old_folder_inode, new_folder_inode, new_name)

(* ------------------- the callbacks as the host calls them ------------- *)

Mkdir ==
    \E f \in Allocated, n \in Names :
        LET o == mkdir_o(f, n)
        IN  /\ next_inode <= MaxInode
            /\ meta' = o.meta
            /\ next_inode' = o.next_inode
            /\ UNCHANGED <<fs_files, fs_chunks, handles, history, proc>>

Create ==
    \E f \in Allocated, n \in Names :
        LET o == create_o(f, n)
        IN  /\ next_inode <= MaxInode
            /\ o.next_fd <= MaxFd
            /\ meta' = o.meta
            /\ next_inode' = o.next_inode
            /\ active_writes' = o.active_writes
            /\ next_fd' = o.next_fd
            /\ active_fd' = o.active_fd
            /\ UNCHANGED <<fs_files, fs_chunks, active_reads, history, proc>>

Unlink ==
    \E f \in Allocated, n \in Names :
        LET o == unlink_o(f, n)
        IN  /\ meta' = o.meta
            /\ fs_files' = o.files
            /\ fs_chunks' = o.chunks
            /\ unlinked' = IF o.result = "ok" THEN unlinked \cup {o.inode}
                           ELSE unlinked
            /\ UNCHANGED <<next_inode, handles, removed, proc>>

Rmdir ==
    \E f \in Allocated, n \in Names :
        LET o == rmdir_o(f, n)
        IN  /\ meta' = o.meta
            /\ fs_files' = o.files
            /\ fs_chunks' = o.chunks
            /\ removed' = IF o.result = "ok" THEN removed \cup {o.inode}
                          ELSE removed
            /\ UNCHANGED <<next_inode, handles, unlinked, proc>>

Open ==
    \E i \in Allocated, flags \in OpenFlags :
        LET o == open_o(i, flags)
        IN  /\ o.next_fd <= MaxFd
            /\ active_reads' = o.active_reads
            /\ next_fd' = o.next_fd
            /\ active_fd' = o.active_fd
            /\ UNCHANGED <<store, active_writes, history, proc>>

\* read, getattr and lookup write nothing: their answers are read_o, getattr
\* and lookup.
Read ==
    \E fd \in Fds, offset \in 0..MaxLen, length \in 0..MaxLen :
        /\ read_o(fd, offset, length).result \in {"ok", "EINVAL", "CorruptGridFile"}
        /\ UNCHANGED vars

Write ==
    \E fd \in Fds, offset \in 0..MaxLen, n \in 0..MaxLen :
        LET id == IF fd \in DOMAIN active_writes THEN active_writes[fd].id ELSE 0
            o == write_o(fd, offset, PatternData(id, offset, n))
        IN  /\ o.result = "ok" => offset + n <= MaxLen
            /\ active_writes' = o.active_writes
            /\ fs_chunks' = o.fs_chunks
            /\ UNCHANGED <<meta, next_inode, fs_files, active_reads, next_fd,
                           active_fd, history, proc>>

Release ==
    \E fd \in Fds :
        LET o == release_o(fd)
        IN  /\ active_writes' = o.active_writes
            /\ active_reads' = o.active_reads
            /\ fs_files' = o.fs_files
            /\ fs_chunks' = o.fs_chunks
            /\ next_fd' = o.next_fd
            /\ active_fd' = o.active_fd
            /\ UNCHANGED <<meta, next_inode, history, proc>>

Getattr ==
    \E i \in Allocated :
        /\ getattr(meta, active_writes, fs_files, i).result \in {"ok", "EntryNotFound"}
        /\ UNCHANGED vars

Lookup ==
    \E f \in Allocated, n \in Names :
        /\ lookup(meta, active_writes, fs_files, f, n).result
               \in {"ok", "ENOENT", "EntryNotFound"}
        /\ UNCHANGED vars

\* The host passes a mode word that keeps the file type of the inode.
Setattr ==
    \E i \in Allocated, st_size \in {"None", "given"}, st_rdev \in {"None", "given"} :
        \E st_mode \in {"None", meta[i].mode} :
            LET o == setattr_o(i, st_size, st_rdev, st_mode)
            IN  /\ meta' = o.meta
                /\ UNCHANGED <<next_inode, fs_files, fs_chunks, handles,
                               history, proc>>

Readdir ==
    \E i \in Allocated, off \in 0..MaxInode :
        /\ readdir(meta, active_writes, fs_files, i, off).result
               \in {"ok", "EntryNotFound"}
        /\ UNCHANGED vars

Rename ==
    \E f \in Allocated, n \in Names, g \in Allocated, k \in Names :
        LET o == rename_o(f, n, g, k)
        IN  /\ meta' = o.meta
            /\ fs_files' = o.files
            /\ fs_chunks' = o.chunks
            /\ UNCHANGED <<next_inode, handles, history, proc>>

\* operations_factory run once more on the database in use (a further mount
\* of the same database): its handles are its own, the store is shared.
Bootstrap ==
    LET o == operations_factory_o(meta, next_inode)
    IN  /\ meta' = o.meta
        /\ next_inode' = o.next_inode
        /\ UNCHANGED <<fs_files, fs_chunks, handles, history, proc>>

\* Callbacks are serialized (one worker): each step is one whole callback.
Next ==
    \/ Mkdir
    \/ Create
    \/ Unlink
    \/ Rmdir
    \/ Open
    \/ Read
    \/ Write
    \/ Release
    \/ Getattr
    \/ Lookup
    \/ Readdir
    \/ Setattr
    \/ Rename
    \/ Bootstrap

Spec == Init /\ [][Next]_vars

(* -------- create, mkdir, unlink, rmdir of two clients, step by step --- *)

\* Two clients (worker threads of one mount) run create, mkdir, unlink or
\* rmdir at the same time; each backend call of _create_entry, of create and
\* of _delete_inode is one step, and the steps of the two interleave in
\* every order.  proc[p].at is the next statement of client p.

\* _create_entry: inode = self._gen_inode(), one find_one_and_update.
CGenInode(p) ==
    \E op \in {"mkdir", "create"}, f \in Allocated, n \in Names :
        /\ proc[p].at = "idle"
        /\ next_inode <= MaxInode
        /\ next_inode' = inc_value(next_inode)
        /\ proc' = [proc EXCEPT ![p] = [at |-> "insert", op |-> op, folder |-> f,
                                        name |-> n, inode |-> next_inode, fd |-> 0,
                                        entry |-> NoDoc,
                                        result |-> "none"]]
        /\ UNCHANGED <<meta, fs_files, fs_chunks, handles, history>>

\* _create_entry: self._insert_entry(entry); the unique index rejects a second
\* document of one (parent_inode, filename), and DuplicateKeyError leaves
\* create or mkdir uncaught.
CInsert(p) ==
    LET c == proc[p]
        mode == IF c.op = "mkdir" THEN S_IFDIR ELSE S_IFREG
    IN  /\ c.at = "insert"
        /\ IF insert_rejected(meta, c.inode, c.folder, c.name)
           THEN /\ proc' = [proc EXCEPT ![p].at = "done",
                                        ![p].result = "DuplicateKeyError"]
                /\ UNCHANGED meta
           ELSE /\ proc' = [proc EXCEPT ![p].at = "link"]
                /\ meta' = [meta EXCEPT ![c.inode] = Entry(c.name, c.folder, mode)]
        /\ UNCHANGED <<next_inode, fs_files, fs_chunks, handles, history>>

\* _create_entry: $addToSet of (name, inode) on the parent; mkdir returns
\* after it, create goes on to the handle.
CLink(p) ==
    LET c == proc[p]
    IN  /\ c.at = "link"
        /\ meta' = AddChild(meta, c.folder, <<c.name, c.inode>>)
        /\ proc' = IF c.op = "mkdir"
                   THEN [proc EXCEPT ![p].at = "done", ![p].result = "ok"]
                   ELSE [proc EXCEPT ![p].at = "open"]
        /\ UNCHANGED <<next_inode, fs_files, fs_chunks, handles, history>>

\* create: fd = self.fd_factory.gen(), then _create_grid_in(entry).
COpen(p) ==
    LET c == proc[p]
        fd == gen(next_fd, active_fd)
        path == create_full_path(meta, c.inode, c.name, c.folder)
    IN  /\ c.at = "open"
        /\ fd <= MaxFd
        /\ next_fd' = fd
        /\ active_fd' = active_fd \cup {fd}
        /\ IF path.found
           THEN /\ active_writes' = Put(active_writes, fd, NewGridIn(c.inode, path.path))
                /\ proc' = [proc EXCEPT ![p].at = "done", ![p].result = "ok"]
           ELSE /\ UNCHANGED active_writes
                /\ proc' = [proc EXCEPT ![p].at = "done",
                                        ![p].result = "EntryNotFound"]
        /\ UNCHANGED <<store, active_reads, history>>

\* _delete_inode: parent = self._entry_by_inode(folder_inode), the test of
\* the name and inode = parent.childs[name].
CDeleteLoad(p) ==
    \E op \in {"unlink", "rmdir"}, f \in Allocated, n \in Names :
        LET c == [at |-> "check", op |-> op, folder |-> f, name |-> n,
                  inode |-> 0, fd |-> 0, entry |-> NoDoc,
         result |-> "none"]
        IN  /\ proc[p].at = "idle"
            /\ proc' = [proc EXCEPT ![p] =
                   IF meta[f] = NoDoc
                   THEN [c EXCEPT !.at = "done", !.result = "EntryNotFound"]
                   ELSE IF n \notin ChildNames(meta[f].childs)
                   THEN [c EXCEPT !.at = "done", !.result = "ENOENT"]
                   ELSE [c EXCEPT !.inode = ChildInode(meta[f].childs, n)]]
            /\ UNCHANGED <<store, handles, history>>

\* _delete_inode: entry = self._entry_by_inode(inode); entry_check(entry).
CDeleteCheck(p) ==
    LET c == proc[p]
        k == call_entry_check(IF c.op = "unlink" THEN "_delete_inode_check_file"
                              ELSE "_delete_inode_check_directory",
                              meta[c.inode])
    IN  /\ c.at = "check"
        /\ proc' = [proc EXCEPT ![p] =
               IF meta[c.inode] = NoDoc
               THEN [c EXCEPT !.at = "done", !.result = "EntryNotFound"]
               ELSE IF k.result # "ok"
               THEN [c EXCEPT !.at = "done", !.result = k.result]
               ELSE [c EXCEPT !.at = "pull"]]
        /\ UNCHANGED <<store, handles, history>>

\* _delete_inode: $pull of (name, inode) from the parent's childs.
CPull(p) ==
    LET c == proc[p]
    IN  /\ c.at = "pull"
        /\ meta' = PullChild(meta, c.folder, <<c.name, c.inode>>)
        /\ proc' = [proc EXCEPT ![p].at = "delete_one"]
        /\ UNCHANGED <<next_inode, fs_files, fs_chunks, handles, history>>

\* _delete_inode: self.meta.delete_one({"_id": inode}).
CDeleteOne(p) ==
    LET c == proc[p]
    IN  /\ c.at = "delete_one"
        /\ meta' = [meta EXCEPT ![c.inode] = NoDoc]
        /\ proc' = [proc EXCEPT ![p].at = "grid_delete"]
        /\ UNCHANGED <<next_inode, fs_files, fs_chunks, handles, history>>

\* _delete_inode: self.gridfs.delete(inode); unlink or rmdir returns.
CGridDelete(p) ==
    LET c == proc[p]
    IN  /\ c.at = "grid_delete"
        /\ fs_files' = [fs_files EXCEPT ![c.inode] = NoFile]
        /\ fs_chunks' = GridDeleteChunks(fs_chunks, c.inode)
        /\ unlinked' = IF c.op = "unlink" THEN unlinked \cup {c.inode} ELSE unlinked
        /\ removed' = IF c.op = "rmdir" THEN removed \cup {c.inode} ELSE removed
        /\ proc' = [proc EXCEPT ![p].at = "done", ![p].result = "ok"]
        /\ UNCHANGED <<meta, next_inode, handles>>

\* The callback has returned or raised: the client is free for its next call.
CReturn(p) ==
    /\ proc[p].at = "done"
    /\ proc' = [proc EXCEPT ![p] = Idle]
    /\ UNCHANGED <<store, handles, history>>

NextC ==
    \E p \in Procs :
        \/ CGenInode(p)
        \/ CInsert(p)
        \/ CLink(p)
        \/ COpen(p)
        \/ CDeleteLoad(p)
        \/ CDeleteCheck(p)
        \/ CPull(p)
        \/ CDeleteOne(p)
        \/ CGridDelete(p)
        \/ CReturn(p)

SpecC == Init /\ [][NextC]_vars

(* ------- setattr of one client between the steps of the other's call ------ *)

\* setattr: entry = self._entry_by_inode(inode), the tests of st_size and
\* st_rdev, and the attributes set on the entry object in memory.
CSetattrLoad(p) ==
    \E i \in Allocated, st_size \in {"None", "given"},
       st_rdev \in {"None", "given"} :
        LET c == [Idle EXCEPT !.op = "setattr", !.inode = i]
        IN  /\ proc[p].at = "idle"
            /\ proc' = [proc EXCEPT ![p] =
                   IF meta[i] = NoDoc
                   THEN [c EXCEPT !.at = "done", !.result = "EntryNotFound"]
                   ELSE IF st_size # "None"
                   THEN [c EXCEPT !.at = "done", !.result = "EINVAL"]
                   ELSE IF st_rdev # "None"
                   THEN [c EXCEPT !.at = "done", !.result = "ENOSYS"]
                   ELSE [c EXCEPT !.at = "update", !.entry = meta[i]]]
            /\ UNCHANGED <<store, handles, history>>

\* setattr: self._update_entry(entry), the $set of the whole document as it
\* was read, then the attributes are returned.
CSetattrUpdate(p) ==
    LET c == proc[p]
    IN  /\ c.at = "update"
        /\ meta' = update_entry(meta, c.inode, c.entry)
        /\ proc' = [proc EXCEPT ![p].at = "done", ![p].result = "ok",
                                ![p].entry = NoDoc]
        /\ UNCHANGED <<next_inode, fs_files, fs_chunks, handles, history>>

NextS ==
    \E p \in Procs :
        \/ CGenInode(p)
        \/ CInsert(p)
        \/ CLink(p)
        \/ COpen(p)
        \/ CDeleteLoad(p)
        \/ CDeleteCheck(p)
        \/ CPull(p)
        \/ CDeleteOne(p)
        \/ CGridDelete(p)
        \/ CSetattrLoad(p)
        \/ CSetattrUpdate(p)
        \/ CReturn(p)

SpecS == Init /\ [][NextS]_vars

(* ------------- the handle table under two interleaved clients ------------- *)

\* The handles the kernel holds: registered by an open or create that has
\* returned, and not yet handed to a release.
HandedOut ==
    {fd \in (DOMAIN active_reads) \cup (DOMAIN active_writes) :
        \A q \in Procs :
            proc[q].fd = fd
                => \/ proc[q].at = "idle"
                   \/ proc[q].op = "release" /\ proc[q].at = "done"}

\* create: _create_entry in one step; the handle follows in steps of its own.
HCreateEntry(p) ==
    \E f \in Allocated, n \in Names :
        LET e == create_entry(f, n, S_IFREG)
            c == [Idle EXCEPT !.op = "create", !.folder = f, !.name = n,
                              !.inode = e.inode]
        IN  /\ proc[p].at = "idle"
            /\ next_inode <= MaxInode
            /\ meta' = e.meta
            /\ next_inode' = e.next_inode
            /\ proc' = [proc EXCEPT ![p] =
                   IF e.result = "ok" THEN [c EXCEPT !.at = "fd_gen"]
                   ELSE [c EXCEPT !.at = "done", !.result = e.result]]
            /\ UNCHANGED <<fs_files, fs_chunks, handles, history>>

\* open: the flag test and gridfs.get(inode), before the handle is taken.
HOpenGet(p) ==
    \E i \in Allocated, flags \in OpenFlags :
        LET o == open_o(i, flags)
            c == [Idle EXCEPT !.op = "open", !.inode = i]
        IN  /\ proc[p].at = "idle"
            /\ proc' = [proc EXCEPT ![p] =
                   IF o.result = "ok" THEN [c EXCEPT !.at = "fd_gen"]
                   ELSE [c EXCEPT !.at = "done", !.result = o.result]]
            /\ UNCHANGED <<store, handles, history>>

\* fd = self.fd_factory.gen(): one step under the factory's lock.
HFdGen(p) ==
    LET fd == gen(next_fd, active_fd)
    IN  /\ proc[p].at = "fd_gen"
        /\ fd <= MaxFd
        /\ next_fd' = fd
        /\ active_fd' = active_fd \cup {fd}
        /\ proc' = [proc EXCEPT ![p].at = "store", ![p].fd = fd]
        /\ UNCHANGED <<store, active_reads, active_writes, history>>

\* self.active_reads[fd] = reader, or self.active_writes[fd] =
\* self._create_grid_in(entry); the callback returns.
HStore(p) ==
    LET c == proc[p]
        path == create_full_path(meta, c.inode, c.name, c.folder)
    IN  /\ c.at = "store"
        /\ IF c.op = "open"
           THEN /\ active_reads' = Put(active_reads, c.fd,
                                       NewGridOut(fs_files, c.inode))
                /\ proc' = [proc EXCEPT ![p].at = "done", ![p].result = "ok"]
                /\ UNCHANGED active_writes
           ELSE IF path.found
           THEN /\ active_writes' = Put(active_writes, c.fd,
                                        NewGridIn(c.inode, path.path))
                /\ proc' = [proc EXCEPT ![p].at = "done", ![p].result = "ok"]
                /\ UNCHANGED active_reads
           ELSE /\ proc' = [proc EXCEPT ![p].at = "done",
                                        ![p].result = "EntryNotFound"]
                /\ UNCHANGED <<active_reads, active_writes>>
        /\ UNCHANGED <<store, next_fd, active_fd, history>>

\* release: if fd in self.active_writes: self.active_writes.pop(fd).close()
HPopWrite(p) ==
    \E fd \in HandedOut :
        LET isw == fd \in DOMAIN active_writes
            c == GridInClose(active_writes[fd])
        IN  /\ proc[p].at = "idle"
            /\ proc' = [proc EXCEPT ![p] =
                   [Idle EXCEPT !.at = "pop_read", !.op = "release", !.fd = fd]]
            /\ active_writes' = IF isw THEN Pop(active_writes, fd)
                                ELSE active_writes
            /\ fs_files' = IF isw
                           THEN [fs_files EXCEPT ![active_writes[fd].id] = c.file]
                           ELSE fs_files
            /\ fs_chunks' = IF isw THEN fs_chunks \cup c.out ELSE fs_chunks
            /\ UNCHANGED <<meta, next_inode, active_reads, next_fd, active_fd,
                           history>>

\* release: if fd in self.active_reads: self.active_reads.pop(fd).close()
HPopRead(p) ==
    LET c == proc[p]
    IN  /\ c.at = "pop_read"
        /\ active_reads' = IF c.fd \in DOMAIN active_reads
                           THEN Pop(active_reads, c.fd) ELSE active_reads
        /\ proc' = [proc EXCEPT ![p].at = "fd_release"]
        /\ UNCHANGED <<store, active_writes, next_fd, active_fd, history>>

\* release: self.fd_factory.release(fd), one step under the factory's lock.
HFdRelease(p) ==
    LET c == proc[p]
        f == fd_release(next_fd, active_fd, c.fd)
    IN  /\ c.at = "fd_release"
        /\ next_fd' = f.next_fd
        /\ active_fd' = f.active_fd
        /\ proc' = [proc EXCEPT ![p].at = "done", ![p].result = "ok"]
        /\ UNCHANGED <<store, active_reads, active_writes, history>>

NextH ==
    \E p \in Procs :
        \/ HCreateEntry(p)
        \/ HOpenGet(p)
        \/ HFdGen(p)
        \/ HStore(p)
        \/ HPopWrite(p)
        \/ HPopRead(p)
        \/ HFdRelease(p)
        \/ CReturn(p)

SpecH == Init /\ [][NextH]_vars

(* --------- FileDescriptorFactory with its handle space used up --------- *)

\* The factory after FdModulus calls of gen and no release: 1, 2, ... up to
\* FdModulus - 1 were handed out, then 0 after the wrap; every value of the
\* handle space is live and the cursor stands on the last one.
InitG ==
    /\ meta = [i \in Inodes |->
                IF i = ROOT_INODE THEN Entry(<<"/">>, ROOT_INODE, S_IFDIR)
                ELSE NoDoc]
    /\ next_inode = ROOT_INODE + 1
    /\ fs_files = [i \in Inodes |-> NoFile]
    /\ fs_chunks = {}
    /\ active_writes = EmptyMap
    /\ active_reads = EmptyMap
    /\ next_fd = 0
    /\ active_fd = 0..(FdModulus - 1)
    /\ unlinked = {}
    /\ removed = {}
    /\ proc = [p \in Procs |-> Idle]

\* with self.lock: held by the client that is inside gen.
LockFree == \A q \in Procs : proc[q].at # "probing"

\* gen: the client takes the lock.
GEnter(p) ==
    /\ proc[p].at = "idle"
    /\ LockFree
    /\ proc' = [proc EXCEPT ![p] = [Idle EXCEPT !.at = "probing", !.op = "gen"]]
    /\ UNCHANGED <<store, handles, history>>

\* The values of the handle space that are not live.
FreeFds(live) == {fd \in 0..(FdModulus - 1) : fd \notin live}

\* The value on which `while self.next_fd in self.active_fd` ends: the first
\* one that is not live in the order cursor, cursor + 1, ... modulo FdModulus
\* (what Probe computes, without its one call per turn of the loop).
ProbeEnd(cursor, live) ==
    CHOOSE fd \in FreeFds(live) :
        \A g \in FreeFds(live) :
            (fd - cursor) % FdModulus <= (g - cursor) % FdModulus

\* gen: the while loop, self.active_fd.add(self.next_fd), return.  The loop
\* ends only on a value that is not live: with none left it turns for ever,
\* the lock stays taken and the client stays in gen.
GGen(p) ==
    /\ proc[p].at = "probing"
    /\ FreeFds(active_fd) # {}
    /\ next_fd' = ProbeEnd(next_fd, active_fd)
    /\ active_fd' = active_fd \cup {next_fd'}
    /\ proc' = [proc EXCEPT ![p].at = "done", ![p].fd = next_fd',
                            ![p].result = "ok"]
    /\ UNCHANGED <<store, active_reads, active_writes, history>>

\* Handles the clients give back in this specification.
ReleasedFds == {0, 1, 2, FdModulus - 1}

\* FileDescriptorFactory.release(fd): waits for the lock.
GRelease(p) ==
    \E fd \in ReleasedFds :
        LET f == fd_release(next_fd, active_fd, fd)
        IN  /\ proc[p].at = "idle"
            /\ LockFree
            /\ fd \in active_fd
            /\ next_fd' = f.next_fd
            /\ active_fd' = f.active_fd
            /\ UNCHANGED <<store, active_reads, active_writes, history, proc>>

NextG ==
    \E p \in Procs :
        \/ GEnter(p)
        \/ GGen(p)
        \/ GRelease(p)
        \/ CReturn(p)

\* Every client that can take a step eventually takes one.
SpecG == InitG /\ [][NextG]_vars /\ WF_vars(NextG)

(* ------------------------------ properties ---------------------------- *)

\* Does a writer / a file document / a chunk of inode i exist?
HasWriter(aw, i) == \E fd \in DOMAIN aw : aw[fd].id = i

HasObject(files, chunks, i) ==
    files[i] # NoFile \/ \E c \in chunks : c.files_id = i

\* The documents of the collection are pairwise distinct in
\* (parent_inode, filename).
UniqueParentName ==
    \A i, j \in Inodes :
        (i # j /\ meta[i] # NoDoc /\ meta[j] # NoDoc)
            => <<meta[i].parent_inode, meta[i].filename>>
                   # <<meta[j].parent_inode, meta[j].filename>>

C2_UnlinkedObjectGone ==
    /\ [][\A f \in Allocated, n \in Names :
              (/\ unlink_o(f, n).result = "ok"
               /\ unlink_o(f, n).inode \in unlinked' \ unlinked)
                  => lookup(meta', active_writes', fs_files', f, n).result = "ENOENT"
         ]_vars
    /\ [](\A i \in unlinked : ~HasObject(fs_files, fs_chunks, i))

\* (parent, name) names an entry: the parent has a document that lists name.
Names_In(m, f, n) == m[f] # NoDoc /\ n \in ChildNames(m[f].childs)

\* C3: for every existing source entry (oldp, oldn) and every destination
\* (newp, newn) in an existing directory that differs from it, rename returns,
\* and afterwards lookup(newp, newn) gives the inode (oldp, oldn) named before
\* and lookup(oldp, oldn) returns ENOENT.
C3_RenameMoves ==
    \A f \in Allocated, n \in Names, g \in Allocated, k \in Names :
        (/\ Names_In(meta, f, n)
         /\ meta[g] # NoDoc /\ meta[g].mode = S_IFDIR
         /\ <<f, n>> # <<g, k>>)
            => LET o == rename_o(f, n, g, k)
                   src == ChildInode(meta[f].childs, n)
                   new == lookup(o.meta, active_writes, o.files, g, k)
                   old == lookup(o.meta, active_writes, o.files, f, n)
               IN  /\ o.result = "ok"
                   /\ new.result = "ok" /\ new.ret.st_ino = src
                   /\ old.result = "ENOENT"

\* release(fd), then open(inode) of the released writer's inode, then
\* read(fd', 0, length) on the handle open returned: the answer of the read,
\* or of the open when it failed.
ReleaseOpenRead(fd, length) ==
    LET r == release_o(fd)
        o == open_in(r.fs_files, r.active_reads, r.next_fd, r.active_fd,
                     active_writes[fd].id, O_RDONLY)
    IN  IF o.result # "ok" THEN [result |-> o.result, line |-> o.line, ret |-> <<>>]
        ELSE read_in(r.fs_chunks, o.active_reads, o.ret, 0, length)

\* C4: for every write handle of a file that still has its metadata document,
\* with D the bytes its in-order writes took so far (none for a file just
\* created): release, open of the inode and a read of |D| bytes or more from
\* offset 0 return exactly D.
C4_RoundTrip ==
    \A fd \in DOMAIN active_writes :
        LET D == active_writes[fd].written
        IN  meta[active_writes[fd].id] # NoDoc
                => \A length \in Len(D)..MaxLen :
                       /\ ReleaseOpenRead(fd, length).result = "ok"
                       /\ ReleaseOpenRead(fd, length).ret = D

\* A file of MaxLen bytes (a full chunk and a rest) has been written, released
\* and opened, and the read of its handle returns the bytes written.
C4_Witness ==
    \E fd \in DOMAIN active_reads :
        /\ active_reads[fd].length = MaxLen
        /\ meta[active_reads[fd].id] # NoDoc
        /\ read_o(fd, 0, MaxLen).result = "ok"
        /\ read_o(fd, 0, MaxLen).ret = PatternData(active_reads[fd].id, 0, MaxLen)

\* C5: on an active write handle whose writer has taken p bytes so far,
\* write(fd, off, data) succeeds exactly when off = p, returns len(data) and
\* moves the position (the bytes taken, and grid_in_size) by len(data); with
\* any other off it returns EINVAL and leaves the writer and the chunks as
\* they were.
C5_AppendOnce ==
    \A fd \in DOMAIN active_writes, off \in 0..(MaxLen + 1), n \in 0..MaxLen :
        LET w == active_writes[fd]
            o == write_o(fd, off, PatternData(w.id, off, n))
        IN  IF off = Len(w.written)
            THEN /\ o.result = "ok"
                 /\ o.ret = n
                 /\ Len(o.active_writes[fd].written) = Len(w.written) + n
                 /\ grid_in_size(o.active_writes[fd]) = grid_in_size(w) + n
            ELSE /\ o.result = "EINVAL"
                 /\ o.active_writes = active_writes
                 /\ o.fs_chunks = fs_chunks

\* A writer has taken MaxLen bytes in successful writes, part of them still in
\* its buffer, and a write at offset 0 is turned down.
C5_Witness ==
    \E fd \in DOMAIN active_writes :
        /\ Len(active_writes[fd].written) = MaxLen
        /\ active_writes[fd].buffer # <<>>
        /\ active_writes[fd].position > 0
        /\ write_o(fd, 0, PatternData(active_writes[fd].id, 0, 1)).result = "EINVAL"

\* A regular file that was written and released: it has its metadata
\* document and its file document, and no writer.
Sealed(i) ==
    /\ meta[i] # NoDoc /\ meta[i].mode = S_IFREG
    /\ fs_files[i] # NoFile
    /\ ~HasWriter(active_writes, i)

\* C6: open(inode, flags) on an existing (sealed) file returns EACCES when the
\* flags ask for write access, write-only as well as read-write, and then
\* hands out no handle and registers no session.
C6_WriteOpenRefused ==
    \A i \in Allocated, flags \in {O_WRONLY, O_RDWR} :
        Sealed(i)
            => /\ open_o(i, flags).result = "EACCES"
               /\ open_o(i, flags).active_reads = active_reads
               /\ open_o(i, flags).active_fd = active_fd
               /\ open_o(i, flags).next_fd = next_fd

\* The writer of inode i, when it has one.
WriterOf(aw, i) == aw[CHOOSE fd \in DOMAIN aw : aw[fd].id = i]

\* The size C7 asks for: the position of the inode's own writer, else the
\* length of its file document, else 0.
SizeOf(i) ==
    IF HasWriter(active_writes, i) THEN grid_in_size(WriterOf(active_writes, i))
    ELSE IF fs_files[i] # NoFile THEN fs_files[i].length
    ELSE 0

\* C7: for every regular file inode, the st_size of getattr, and of lookup
\* under every name of it, is the position of that inode's writer while it has
\* a write handle, else the length of its chunked object, else 0: a function
\* of that inode's own sessions only.
C7_SizeReporting ==
    /\ \A i \in Allocated :
           (meta[i] # NoDoc /\ meta[i].mode = S_IFREG)
               => /\ getattr(meta, active_writes, fs_files, i).result = "ok"
                  /\ getattr(meta, active_writes, fs_files, i).ret.st_size = SizeOf(i)
    /\ \A f \in Allocated, n \in Names :
           (/\ Names_In(meta, f, n)
            /\ meta[ChildInode(meta[f].childs, n)].mode = S_IFREG)
               => /\ lookup(meta, active_writes, fs_files, f, n).result = "ok"
                  /\ lookup(meta, active_writes, fs_files, f, n).ret.st_size
                         = SizeOf(ChildInode(meta[f].childs, n))

Content(files, chunks, i) ==
    GridOutRead(chunks, NewGridOut(files, i), 0, files[i].length)

\* C10: when two distinct sealed files a = (f, na) and b = (g, nb) exist,
\* rename of b onto a's name succeeds; afterwards a's name resolves to b's
\* inode, whose content is what it was, b's old name returns ENOENT, and a's
\* metadata document and chunked object are gone.
C10_RenameOverwrite ==
    \A f \in Allocated, na \in Names, g \in Allocated, nb \in Names :
        (/\ Names_In(meta, f, na) /\ Names_In(meta, g, nb)
         /\ ChildInode(meta[f].childs, na) # ChildInode(meta[g].childs, nb)
         /\ Sealed(ChildInode(meta[f].childs, na))
         /\ Sealed(ChildInode(meta[g].childs, nb)))
            => LET a == ChildInode(meta[f].childs, na)
                   b == ChildInode(meta[g].childs, nb)
                   o == rename_o(g, nb, f, na)
               IN  /\ o.result = "ok"
                   /\ lookup(o.meta, active_writes, o.files, f, na).result = "ok"
                   /\ lookup(o.meta, active_writes, o.files, f, na).ret.st_ino = b
                   /\ Content(o.files, o.chunks, b).result = "ok"
                   /\ Content(o.files, o.chunks, b) = Content(fs_files, fs_chunks, b)
                   /\ lookup(o.meta, active_writes, o.files, g, nb).result = "ENOENT"
                   /\ o.meta[a] = NoDoc
                   /\ ~HasObject(o.files, o.chunks, a)

\* The inodes the childs of a document list.
ChildInodes(childs) == {ChildInode(childs, n) : n \in ChildNames(childs)}

\* The cursors of a listing, in the order yielded.
NextOffs(items) == [k \in 1..Len(items) |-> items[k].next_off]

\* C11: for a directory d and every cursor off, readdir(d, off) yields
\* exactly the children of d with an inode above off, each once, in strictly
\* ascending inode order, each under its own name with its own inode as
\* st_ino and next_off; so a readdir(d, 0) stopped after its k-th child and
\* resumed at that child's next_off yields the rest of the same listing.
C11_ReaddirResumes ==
    \A d \in Allocated, off \in 0..MaxInode :
        (meta[d] # NoDoc /\ meta[d].mode = S_IFDIR)
            => LET r == readdir(meta, active_writes, fs_files, d, off)
                   all == readdir(meta, active_writes, fs_files, d, 0)
               IN  /\ r.result = "ok"
                   /\ {r.ret[k].next_off : k \in 1..Len(r.ret)}
                          = {c \in ChildInodes(meta[d].childs) : c > off}
                   /\ \A k \in 1..Len(r.ret) :
                          /\ k > 1 => r.ret[k - 1].next_off < r.ret[k].next_off
                          /\ r.ret[k].attr.st_ino = r.ret[k].next_off
                          /\ <<r.ret[k].name, r.ret[k].next_off>>
                                 \in {meta[d].childs[j] : j \in 1..Len(meta[d].childs)}
                   /\ \A k \in 1..Len(all.ret) :
                          SubSeq(all.ret, 1, k)
                              \o readdir(meta, active_writes, fs_files, d,
                                         all.ret[k].next_off).ret
                              = all.ret

\* A directory lists two children, and the listing resumed after the first
\* yields the second alone.
C11_Witness ==
    \E d \in Allocated :
        /\ meta[d] # NoDoc /\ meta[d].mode = S_IFDIR
        /\ Len(readdir(meta, active_writes, fs_files, d, 0).ret) = 2
        /\ Len(readdir(meta, active_writes, fs_files, d,
                       readdir(meta, active_writes, fs_files, d, 0).ret[1].next_off
                      ).ret) = 1

RECURSIVE ReachFrom(_, _)
\* The inodes reached from the set S by following childs lists.
ReachFrom(m, S) ==
    LET next == S \cup {c \in Inodes :
                           \E p \in S : m[p] # NoDoc /\ c \in ChildInodes(m[p].childs)}
    IN  IF next = S THEN S ELSE ReachFrom(m, next)

Reachable(m) == ReachFrom(m, {ROOT_INODE})

RECURSIVE RootPath(_, _, _)
\* The path of inode i written out from its chain of parent pointers: "/"
\* for the root, "/name" under the root, parent's path + "/" + name below;
\* depth bounds the walk.
RootPath(m, i, depth) ==
    IF i = ROOT_INODE \/ depth = 0 \/ m[i] = NoDoc THEN <<"/">>
    ELSE IF m[i].parent_inode = ROOT_INODE THEN <<"/">> \o m[i].filename
    ELSE RootPath(m, m[i].parent_inode, depth - 1) \o <<"/">> \o m[i].filename

\* Inode i is stamped: its file document carries the path of its parents.
Stamped(i) ==
    fs_files[i] # NoFile /\ fs_files[i].filename = RootPath(meta, i, MaxInode)

\* C12: in every state between operations, every regular-file inode reachable
\* from the root has an active write session or a chunked object whose
\* filename is the path walked from the inode up its parent pointers to the
\* root.
C12_PathStamped ==
    \A i \in Reachable(meta) :
        (meta[i] # NoDoc /\ meta[i].mode = S_IFREG)
            => HasWriter(active_writes, i) \/ Stamped(i)

\* A released file below a subdirectory carries its path of two names.
C12_Witness ==
    \E i \in Reachable(meta) :
        /\ meta[i] # NoDoc /\ meta[i].mode = S_IFREG
        /\ meta[i].parent_inode # ROOT_INODE
        /\ ~HasWriter(active_writes, i)
        /\ Stamped(i)
        /\ Len(fs_files[i].filename) = 4

\* Client p is in a create or mkdir and holds the inode _gen_inode gave it.
HoldsNewInode(p) == proc[p].op \in {"mkdir", "create"} /\ proc[p].inode # 0

ChildDocs(m, d) ==
    {<<m[j].filename, j>> : j \in {i \in Inodes : /\ i # d
                                                  /\ m[i] # NoDoc
                                                  /\ m[i].parent_inode = d}}

\* C14: in every state between the operations of a sequential history, the
\* childs list of each directory holds exactly the (filename, inode) pairs
\* of the documents whose parent_inode is that directory, each once, and
\* every inode any childs list names has a metadata document.
C14_DirectoryConsistent ==
    /\ \A d \in Inodes :
           (meta[d] # NoDoc /\ meta[d].mode = S_IFDIR)
               => /\ {meta[d].childs[k] : k \in 1..Len(meta[d].childs)}
                         = ChildDocs(meta, d)
                  /\ Len(meta[d].childs) = Cardinality(ChildDocs(meta, d))
    /\ \A d \in Inodes :
           meta[d] # NoDoc
               => \A k \in 1..Len(meta[d].childs) :
                      meta[meta[d].childs[k][2]] # NoDoc

\* The root lists a directory, and that directory lists a child of its own.
C14_Witness ==
    \E d \in Inodes \ {ROOT_INODE} :
        /\ meta[d] # NoDoc /\ meta[d].mode = S_IFDIR
        /\ meta[d].childs # <<>>
        /\ meta[ROOT_INODE].childs # <<>>

\* C15: open(inode) succeeds only on a sealed inode: one that has its
\* chunked object, no write session any more, and was not unlinked; while an
\* inode has its creator's write handle, open of it fails; and no inode has
\* two write sessions.
C15_FileStateMachine ==
    /\ \A i \in Allocated, flags \in OpenFlags :
           /\ open_o(i, flags).result = "ok"
                  => /\ ~HasWriter(active_writes, i)
                     /\ fs_files[i] # NoFile
                     /\ i \notin unlinked
                     /\ meta[i] # NoDoc
           /\ HasWriter(active_writes, i) => open_o(i, flags).result # "ok"
    /\ \A fd, gd \in DOMAIN active_writes :
           active_writes[fd].id = active_writes[gd].id => fd = gd

\* C16: getattr of an inode without a metadata document returns ENOENT;
\* lookup(parent, name) returns ENOENT when name is not in the parent's
\* childs, and also when it is listed but the child's document is gone;
\* readdir answers with the children that have a document.
C16_MissingIsENOENT ==
    /\ \A i \in Allocated :
           meta[i] = NoDoc
               => getattr(meta, active_writes, fs_files, i).result = "ENOENT"
    /\ \A f \in Allocated, n \in Names :
           (/\ meta[f] # NoDoc
            /\ \/ n \notin ChildNames(meta[f].childs)
               \/ meta[ChildInode(meta[f].childs, n)] = NoDoc)
               => lookup(meta, active_writes, fs_files, f, n).result = "ENOENT"
    /\ \A d \in Allocated :
           meta[d] # NoDoc
               => LET r == readdir(meta, active_writes, fs_files, d, 0)
                  IN  /\ r.result = "ok"
                      /\ {r.ret[k].next_off : k \in 1..Len(r.ret)}
                             = {c \in ChildInodes(meta[d].childs) : meta[c] # NoDoc}

\* C17: readdir(inode, off) on an inode whose document is a regular file
\* returns ENOTDIR.
C17_ReaddirOnFile ==
    \A i \in Allocated, off \in 0..MaxInode :
        (meta[i] # NoDoc /\ meta[i].mode = S_IFREG)
            => readdir(meta, active_writes, fs_files, i, off).result = "ENOTDIR"

\* Some document already carries (parent f, name n).
NameTaken(f, n) ==
    \E j \in Inodes :
        meta[j] # NoDoc /\ meta[j].parent_inode = f /\ meta[j].filename = n

\* C18: a create or mkdir of a (parent, name) that a document already
\* carries is rejected as a duplicate and leaves every metadata document (the
\* parent's childs and the existing entry with them) as it was; create then
\* hands out no handle and opens no write session.  (Neither callback writes
\* to the chunked store.)
C18_RejectedInsertFrame ==
    \A f \in Allocated, n \in Names :
        (next_inode <= MaxInode /\ NameTaken(f, n))
            => /\ mkdir_o(f, n).result = "DuplicateKeyError"
               /\ mkdir_o(f, n).meta = meta
               /\ create_o(f, n).result = "DuplicateKeyError"
               /\ create_o(f, n).meta = meta
               /\ create_o(f, n).active_writes = active_writes
               /\ create_o(f, n).active_fd = active_fd
               /\ create_o(f, n).next_fd = next_fd

\* An inode was used up by a rejected insert (it was handed out, never had a
\* document, and nothing was deleted), and the entry that was there lists
\* in the root with its writer still open.
C18_Witness ==
    /\ unlinked = {} /\ removed = {}
    /\ \E i \in Allocated \ {ROOT_INODE} : meta[i] = NoDoc
    /\ meta[ROOT_INODE].childs # <<>>
    /\ active_writes # EmptyMap


\* Document j carries (parent f, name n), the parent no longer lists it, and
\* an unlink of that name stands between its $pull and its delete_one.
Ghost(f, n, j) ==
    /\ meta[j] # NoDoc
    /\ meta[j].parent_inode = f
    /\ meta[j].filename = n
    /\ meta[f] # NoDoc
    /\ <<n, j>> \notin {meta[f].childs[k] : k \in 1..Len(meta[f].childs)}
    /\ \E q \in Procs :
           /\ proc[q].op = "unlink"
           /\ proc[q].at = "delete_one"
           /\ proc[q].folder = f
           /\ proc[q].name = n
           /\ proc[q].inode = j

\* C19: a create(parent, name) interleaved with an unlink(parent, name) is
\* never rejected by the unique index because of a child document that the
\* unlink has already pulled from the parent's childs.
C19_NoGhostBlock ==
    [][\A p \in Procs :
           (/\ proc[p].op = "create"
            /\ proc[p].at = "insert"
            /\ proc'[p].at = "done"
            /\ proc'[p].result = "DuplicateKeyError")
               => ~\E j \in Inodes : Ghost(proc[p].folder, proc[p].name, j)]_vars

\* Every handle number a callback can be given, live or not.
AnyFd == 0..(MaxFd + 1)

\* C20: release(fd) never reports an error, also for an fd that is not
\* live; afterwards fd is in neither active_reads nor active_writes nor the
\* live set, and read(fd) and write(fd) return EINVAL as long as fd is not
\* live.  read returns EINVAL for a write handle and write returns EINVAL
\* for a read handle.
C20_HandleLifecycle ==
    /\ \A fd \in AnyFd :
           LET r == release_o(fd)
           IN  /\ r.result = "ok"
               /\ fd \notin DOMAIN r.active_reads
               /\ fd \notin DOMAIN r.active_writes
               /\ fd \notin r.active_fd
               /\ \A offset \in 0..MaxLen :
                      /\ read_in(r.fs_chunks, r.active_reads,
                                 fd, offset, 1).result = "EINVAL"
                      /\ \A n \in 0..MaxLen :
                             write_in(r.active_writes, r.fs_chunks, fd, offset,
                                      PatternData(0, offset, n)).result = "EINVAL"
    /\ \A fd \in AnyFd \ active_fd, offset \in 0..MaxLen :
           /\ read_o(fd, offset, 1).result = "EINVAL"
           /\ \A n \in 0..MaxLen :
                  write_o(fd, offset, PatternData(0, offset, n)).result = "EINVAL"
    /\ \A fd \in DOMAIN active_writes, offset \in 0..MaxLen :
           read_o(fd, offset, 1).result = "EINVAL"
    /\ \A fd \in DOMAIN active_reads, offset \in 0..MaxLen, n \in 0..MaxLen :
           write_o(fd, offset, PatternData(active_reads[fd].id, offset, n)).result
               = "EINVAL"

\* A handle was released and given out again: a writer holds handle 1 on a
\* later inode while a reader is open on another handle, and one handle
\* number above 0 is free.
C20_Witness ==
    /\ 1 \in DOMAIN active_writes
    /\ active_writes[1].id > 2
    /\ active_reads # EmptyMap
    /\ AnyFd \ (active_fd \cup {0}) # {}


\* C21: in every reachable state of interleaved open, create and release,
\* no handle is a key of both active_reads and active_writes, every key of
\* either map is live, the cursor is back at its initial value whenever no
\* handle is live; every handle gen returns is a 16-bit value that was not
\* live when it was taken.
C21_HandleTable ==
    /\ [](/\ (DOMAIN active_reads) \cap (DOMAIN active_writes) = {}
          /\ (DOMAIN active_reads) \cup (DOMAIN active_writes) \subseteq active_fd
          /\ active_fd = {} => next_fd = 1)
    /\ [][\A p \in Procs :
             (proc[p].at = "fd_gen" /\ proc'[p].at = "store")
                 => /\ proc'[p].fd \in 0..(FdModulus - 1)
                    /\ proc'[p].fd \notin active_fd
                    /\ proc'[p].fd \in active_fd']_vars

\* A writer was released and its file opened: a reader is registered on a
\* sealed file while a client has taken a further handle from the factory and
\* not yet registered it.
C21_Witness ==
    /\ \E fd \in DOMAIN active_reads :
           \E i \in DOMAIN fs_files : fs_files[i] # NoFile /\ active_reads[fd].id = i
    /\ \E p \in Procs : proc[p].at = "store" /\ proc[p].fd \notin DOMAIN active_reads


\* The chunks of the chunked object of inode i.
ChunksOf(chunks, i) == {c \in chunks : c.files_id = i}

\* The file of inode i has been closed by the release of its write handle
\* and has not been unlinked.
Finalized(i) == meta[i] # NoDoc /\ fs_files[i] # NoFile

\* C22: once the write handle of a file has been released, no later
\* operation changes the length, the chunks or the byte content of its
\* chunked object, for as long as the file is not unlinked.
C22_ImmutableAfterRelease ==
    [][\A i \in Inodes :
           (Finalized(i) /\ Finalized(i)')
               => /\ fs_files'[i] = fs_files[i]
                  /\ ChunksOf(fs_chunks', i) = ChunksOf(fs_chunks, i)
                  /\ Content(fs_files', fs_chunks', i)
                         = Content(fs_files, fs_chunks, i)]_vars

\* A file with bytes in it has been released, and the handle number of its
\* writer is in use again by the writer of a later file that has taken bytes.
C22_Witness ==
    \E i \in Inodes, fd \in DOMAIN active_writes :
        /\ Finalized(i)
        /\ fs_files[i].length > 0
        /\ ~HasWriter(active_writes, i)
        /\ fd = 1
        /\ active_writes[fd].id > i
        /\ Len(active_writes[fd].written) > 0


\* C23: bootstrap on a store that holds a root document and an allocator
\* document, after any history of operations, leaves every metadata
\* document and next_inode.value as they are; on an empty store it creates
\* the root directory, its own parent and without childs, and an allocator
\* whose value is the root inode plus one.
C23_BootstrapIdempotent ==
    /\ operations_factory_o(meta, next_inode)
           = [meta |-> meta, next_inode |-> next_inode]
    /\ LET o == operations_factory_o(EmptyMeta, NoAllocator)
       IN  /\ o.meta[ROOT_INODE].mode = S_IFDIR
           /\ o.meta[ROOT_INODE].parent_inode = ROOT_INODE
           /\ o.meta[ROOT_INODE].childs = <<>>
           /\ \A i \in Inodes \ {ROOT_INODE} : o.meta[i] = NoDoc
           /\ o.next_inode = ROOT_INODE + 1
           /\ operations_factory_o(o.meta, o.next_inode) = o

\* The store has a history: the root lists a child, a directory below it has
\* a document, an entry was removed again and the allocator has moved on.
C23_Witness ==
    /\ meta[ROOT_INODE].childs # <<>>
    /\ \E i \in Inodes \ {ROOT_INODE} : meta[i] # NoDoc /\ meta[i].mode = S_IFDIR
    /\ unlinked \cup removed # {}
    /\ next_inode > ROOT_INODE + 2


\* C24: every call of FileDescriptorFactory.gen returns a handle, whatever
\* the live set is, also when every value of the handle space is live; the
\* lock it holds is given back.
C24_GenTerminates ==
    \A p \in Procs : (proc[p].at = "probing") ~> (proc[p].at = "done")


\* C25: after any sequence of completed callbacks, every chunked object in
\* the store (a file document or a chunk) has a metadata document with the
\* same id.
C25_NoOrphanObject ==
    \A i \in Inodes :
        HasObject(fs_files, fs_chunks, i) => meta[i] # NoDoc


C27_SetattrKeepsLinks ==
    /\ [][\A p \in Procs :
             (proc[p].op = "setattr" /\ proc[p].at = "update"
                  /\ proc'[p].at = "done")
                 => LET i == proc[p].inode
                    IN  /\ meta'[i].childs = meta[i].childs
                        /\ meta'[i].parent_inode = meta[i].parent_inode
                        /\ meta'[i].filename = meta[i].filename]_vars
    /\ [](\A i \in Allocated, st_mode \in {"None", S_IFDIR, S_IFREG} :
             meta[i] # NoDoc
                 => /\ setattr_o(i, "given", "None", st_mode).result = "EINVAL"
                    /\ setattr_o(i, "given", "None", st_mode).meta = meta
                    /\ setattr_o(i, "None", "given", st_mode).result = "ENOSYS"
                    /\ setattr_o(i, "None", "given", st_mode).meta = meta)

====
